---- MODULE Spec2Model ----
(***************************************************************************)
(* Model of the metrics engine of Aether Monitor+ (src/core.py,            *)
(* class MonitorCore) and of the threads that call into it.                *)
(*                                                                         *)
(* Units.  Percentages and temperatures are whole numbers.  The health    *)
(* score is held in tenths of a percent, so that the weights 0.3, 0.4 and  *)
(* 0.3 of _calculate_health are the integers 3, 4 and 3 and 100.0 is 1000. *)
(* Time is in whole seconds; last_*_time = 0 is the value set by __init__. *)
(*                                                                         *)
(* Granularity.  One action per place where another thread may observe or  *)
(* change shared state: the unlocked staleness check, the lock acquisition *)
(* with the locked re-check, the OS query with the stores and the release, *)
(* each store of optimize_memory_usage, the health store and the building  *)
(* of the returned dict.  Nothing is taken to be atomic across two of      *)
(* these, so a thread may be overtaken anywhere between them.              *)
(***************************************************************************)
EXTENDS Integers, Sequences, FiniteSets

VARIABLES
    \* MonitorCore fields (src/core.py:18-41)
    cpu_percent, ram_percent, disk_percent, temp_celsius, health,
    last_cpu_time, last_ram_time, last_disk_time, last_temp_time,
    cpu_interval, ram_interval, disk_interval,
    lock, temp_available,
    \* time.time()
    now,
    \* per calling thread: position, local current_time, returned dict,
    \* local memory_mb of check_memory_limit
    pc, current_time, ret, memory_mb,
    \* result of the latest get_recommendations call
    rec_out,
    \* history: the latest re-sample attempt, the last disk percent an OS
    \* query returned, whether the latest disk attempt failed on both paths,
    \* and the interval of its kind that was in force when the lock holder
    \* made its locked re-check
    last_att, disk_good, disk_failing, check_iv,
    \* AetherMonitor fields (src/main.py:25-27), the position of the main
    \* thread, and of the producer thread in _update_loop with its locals
    running, window_visible, main_pc, loop_pc, last_data,
    include_recommendations,
    \* the poll_intervals of MonitorUI.config (src/ui.py:17), the
    \* _widget_visible field (src/main.py:29), the text of the widget button
    \* (src/ui.py:203) and the number of button updates handed to
    \* root.after and not yet run (src/main.py:180)
    poll_intervals, widget_visible, widget_btn, button_pending

engine == <<cpu_percent, ram_percent, disk_percent, temp_celsius, health,
            last_cpu_time, last_ram_time, last_disk_time, last_temp_time,
            cpu_interval, ram_interval, disk_interval, lock, temp_available>>
caller == <<pc, current_time, ret, memory_mb>>
history == <<last_att, disk_good, disk_failing, check_iv>>
front == <<poll_intervals, widget_visible, widget_btn, button_pending>>
app == <<running, window_visible, main_pc, loop_pc, last_data,
         include_recommendations, front>>
vars == <<engine, now, caller, rec_out, history, app>>

\* ---------------------------------------------------------------- bounds
\* The clock of the concurrent runs visits the first NumInstants entries of
\* Instants, the clock of the single-threaded runs the first NumSeqInstants
\* entries of SeqInstants.
NumInstants == 3
NumSeqInstants == 6

\* ------------------------------------------------------------- constants
MemoryLimitMB == 25
RecsMemoryLimitMB == 30
MemCheckPeriod == 30
FixedInterval == 10
HealthMax == 1000

\* The threads that call the engine: the producer loop (main.py:102) and the
\* UI thread running the overlay's timer (widget.py:217).
Threads == {"producer", "widget"}
Kinds == {"cpu", "ram", "disk", "temp"}
Free == "free"

\* The instants (seconds) at which time.time() is read; 30 and 60 are the
\* ones with int(current_time) % 30 == 0.
Instants == <<29, 30, 40, 41, 50, 60, 61>>
SeqInstants == <<29, 30, 33, 40, 41, 45, 50, 60, 61, 63>>

\* What the OS can answer.  <<>> is a query that raises, <<v>> one that
\* returns v.
Samples == {60}
SeqSamples == {0, 60, 100}
TempSamples == {45}
MemReadings == {25, 26}
Outcomes(S) == {<<>>} \cup {<<v>> : v \in S}
TempOutcomes ==
    {[r |-> "raise", v |-> 0], [r |-> "empty", v |-> 0]}
        \cup {[r |-> "value", v |-> x] : x \in TempSamples}

Max(a, b) == IF a >= b THEN a ELSE b
Min(a, b) == IF a <= b THEN a ELSE b

\* ------------------------------------------------------- _calculate_health
\* Variants with a slip: the lower clamp forgotten; the weights of cpu and
\* ram exchanged.
calculate_health_NoFloor(cpu, ram, disk) ==
    Min(HealthMax, HealthMax - ((cpu * 3) + (ram * 4) + (disk * 3)))

calculate_health_Weights(cpu, ram, disk) ==
    LET h == HealthMax - ((cpu * 4) + (ram * 3) + (disk * 3))
    IN  Max(0, Min(HealthMax, h))

calculate_health(cpu, ram, disk) ==
    LET h == HealthMax - ((cpu * 3) + (ram * 4) + (disk * 3))
    IN  Max(0, Min(HealthMax, h))

\* --------------------------------------------------------------- __init__
NoSnapshot == [cpu |-> 0, ram |-> 0, disk |-> 0, temp |-> <<>>, health |-> 0]
NoAttempt ==
    [kind |-> "none", ok |-> TRUE, before |-> 0, iv |-> 0, via |-> "direct"]
NoRecs == [called |-> FALSE, mem |-> 0, result |-> <<>>]

\* AetherMonitor.__init__: not running, the window withdrawn, the producer
\* thread not created
\* The poll_intervals _load_config returns when there is no config file.
DefaultPollIntervals == <<3, 5, 10>>

InitMain ==
    /\ running = FALSE
    /\ window_visible = FALSE
    /\ main_pc = "constructed"
    /\ loop_pc = "off"
    /\ last_data = <<>>
    /\ include_recommendations = FALSE
    /\ widget_visible = TRUE
    /\ widget_btn = "ENABLE WIDGET"
    /\ button_pending = 0

InitApp ==
    /\ InitMain
    /\ poll_intervals = DefaultPollIntervals

InitCore ==
    /\ cpu_percent = 0 /\ ram_percent = 0 /\ disk_percent = 0
    /\ temp_celsius = 0 /\ health = HealthMax
    /\ last_cpu_time = 0 /\ last_ram_time = 0
    /\ last_disk_time = 0 /\ last_temp_time = 0
    /\ cpu_interval = 3 /\ ram_interval = 5 /\ disk_interval = 10
    /\ lock = Free
    /\ temp_available \in BOOLEAN

InitCallerAt(n) ==
    /\ now = n
    /\ pc = [t \in Threads |-> "idle"]
    /\ current_time = [t \in Threads |-> 0]
    /\ ret = [t \in Threads |-> NoSnapshot]
    /\ memory_mb = [t \in Threads |-> 0]
    /\ rec_out = NoRecs
    /\ last_att = NoAttempt
    /\ disk_good = <<>>
    /\ disk_failing = FALSE
    /\ check_iv = 0

InitCaller == InitCallerAt(Instants[1])

Init ==
    /\ InitCore
    /\ InitCaller
    /\ InitApp

\* ------------------------------------------------------------------ clock
\* time.time() moves on to the next instant of S
Tick(S) ==
    /\ \E n \in S :
          /\ n > now
          /\ \A m \in S : m > now => n <= m
          /\ now' = n
    /\ UNCHANGED <<engine, caller, rec_out, history, app>>

\* ------------------------------------------- get_lightweight_metrics entry
Goto(t, p) == pc' = [pc EXCEPT ![t] = p]

Entry(t) ==
    /\ pc[t] \in {"idle", "returned", "raised"}
    /\ current_time' = [current_time EXCEPT ![t] = now]
    /\ ret' = [ret EXCEPT ![t] = NoSnapshot]
    /\ Goto(t, IF now % MemCheckPeriod = 0 THEN "mem" ELSE "cpu_chk")
    /\ UNCHANGED <<engine, now, memory_mb, rec_out, history>>

\* A call of get_lightweight_metrics by thread t.
Call(t) ==
    Entry(t) /\ UNCHANGED app

\* check_memory_limit, first statement: m is the reading that
\* get_app_memory_usage returns
GetAppMemoryUsage(t, m) ==
    /\ pc[t] = "mem"
    /\ memory_mb' = [memory_mb EXCEPT ![t] = m]
    /\ Goto(t, "mem_cmp")
    /\ UNCHANGED <<engine, now, current_time, ret, rec_out, history, app>>

\* Variant with a slip: the comparison made non-strict.
CheckMemoryLimit_NonStrict(t) ==
    /\ pc[t] = "mem_cmp"
    /\ Goto(t, IF memory_mb[t] >= MemoryLimitMB THEN "opt_cpu" ELSE "cpu_chk")
    /\ memory_mb' = [memory_mb EXCEPT ![t] = 0]
    /\ UNCHANGED <<engine, now, current_time, ret, rec_out, history, app>>

\* check_memory_limit, the comparison; the local is gone once it is made
CheckMemoryLimit(t) ==
    /\ pc[t] = "mem_cmp"
    /\ Goto(t, IF memory_mb[t] > MemoryLimitMB THEN "opt_cpu" ELSE "cpu_chk")
    /\ memory_mb' = [memory_mb EXCEPT ![t] = 0]
    /\ UNCHANGED <<engine, now, current_time, ret, rec_out, history, app>>

\* optimize_memory_usage: three stores, taken without the lock
\* Variant with a slip: the cached cpu percent dropped with the garbage.
OptimizeCpu_Clearing(t) ==
    /\ pc[t] = "opt_cpu"
    /\ cpu_interval' = 10
    /\ cpu_percent' = 0
    /\ Goto(t, "opt_ram")
    /\ UNCHANGED <<ram_percent, disk_percent, temp_celsius, health,
                   last_cpu_time, last_ram_time, last_disk_time, last_temp_time,
                   ram_interval, disk_interval, lock, temp_available,
                   now, current_time, ret, memory_mb, rec_out, history, app>>

OptimizeCpu(t) ==
    /\ pc[t] = "opt_cpu"
    /\ cpu_interval' = 10
    /\ Goto(t, "opt_ram")
    /\ UNCHANGED <<cpu_percent, ram_percent, disk_percent, temp_celsius, health,
                   last_cpu_time, last_ram_time, last_disk_time, last_temp_time,
                   ram_interval, disk_interval, lock, temp_available,
                   now, current_time, ret, memory_mb, rec_out, history, app>>

OptimizeRam(t) ==
    /\ pc[t] = "opt_ram"
    /\ ram_interval' = 15
    /\ Goto(t, "opt_disk")
    /\ UNCHANGED <<cpu_percent, ram_percent, disk_percent, temp_celsius, health,
                   last_cpu_time, last_ram_time, last_disk_time, last_temp_time,
                   cpu_interval, disk_interval, lock, temp_available,
                   now, current_time, ret, memory_mb, rec_out, history, app>>

OptimizeDisk(t) ==
    /\ pc[t] = "opt_disk"
    /\ disk_interval' = 20
    /\ Goto(t, "cpu_chk")
    /\ UNCHANGED <<cpu_percent, ram_percent, disk_percent, temp_celsius, health,
                   last_cpu_time, last_ram_time, last_disk_time, last_temp_time,
                   cpu_interval, ram_interval, lock, temp_available,
                   now, current_time, ret, memory_mb, rec_out, history, app>>

\* Variant with a slip: the lock taken with acquire() and no finally.
Raise_KeepLock(t) ==
    /\ lock' = lock
    /\ Goto(t, "raised")

\* A query that raises where the code has no handler: the with-block
\* releases the lock and the exception leaves get_lightweight_metrics.
Raise(t) ==
    /\ lock' = Free
    /\ Goto(t, "raised")

AttemptVia(k, good, before, path) ==
    /\ last_att' = [kind |-> k, ok |-> good, before |-> before,
                    iv |-> check_iv, via |-> path]
    /\ check_iv' = 0

Attempt(k, good, before) == AttemptVia(k, good, before, "direct")

\* ------------------------------------------------------------ CPU section
CpuCheck(t) ==
    /\ pc[t] = "cpu_chk"
    /\ Goto(t, IF current_time[t] - last_cpu_time >= cpu_interval
               THEN "cpu_lock" ELSE "ram_chk")
    /\ UNCHANGED <<engine, now, current_time, ret, memory_mb, rec_out, history, app>>

\* Variant with a slip: no second staleness check once the lock is held.
CpuLock_NoRecheck(t) ==
    /\ pc[t] = "cpu_lock"
    /\ lock = Free
    /\ lock' = t
    /\ check_iv' = cpu_interval
    /\ Goto(t, "cpu_q")
    /\ UNCHANGED <<cpu_percent, ram_percent, disk_percent, temp_celsius, health,
                   last_cpu_time, last_ram_time, last_disk_time, last_temp_time,
                   cpu_interval, ram_interval, disk_interval, temp_available,
                   now, current_time, ret, memory_mb, rec_out, last_att, disk_good,
                   disk_failing, app>>

CpuLock(t) ==
    /\ pc[t] = "cpu_lock"
    /\ lock = Free
    /\ IF current_time[t] - last_cpu_time >= cpu_interval
       THEN /\ lock' = t
            /\ check_iv' = cpu_interval
            /\ Goto(t, "cpu_q")
       ELSE /\ UNCHANGED <<lock, check_iv>>
            /\ Goto(t, "ram_chk")
    /\ UNCHANGED <<cpu_percent, ram_percent, disk_percent, temp_celsius, health,
                   last_cpu_time, last_ram_time, last_disk_time, last_temp_time,
                   cpu_interval, ram_interval, disk_interval, temp_available,
                   now, current_time, ret, memory_mb, rec_out, last_att, disk_good,
                   disk_failing, app>>

CpuQuery(t, out) ==
    /\ pc[t] = "cpu_q"
    /\ IF out = <<>>
       THEN /\ Raise(t)
            /\ Attempt("cpu", FALSE, last_cpu_time)
            /\ UNCHANGED <<cpu_percent, last_cpu_time>>
       ELSE /\ cpu_percent' = out[1]
            /\ last_cpu_time' = current_time[t]
            /\ lock' = Free
            /\ Attempt("cpu", TRUE, last_cpu_time)
            /\ Goto(t, "ram_chk")
    /\ UNCHANGED <<ram_percent, disk_percent, temp_celsius, health,
                   last_ram_time, last_disk_time, last_temp_time,
                   cpu_interval, ram_interval, disk_interval, temp_available,
                   now, current_time, ret, memory_mb, rec_out, disk_good, disk_failing, app>>

\* ------------------------------------------------------------ RAM section
\* Variant with a slip: the unlocked staleness check forgotten.
RamCheck_NoGate(t) ==
    /\ pc[t] = "ram_chk"
    /\ Goto(t, "ram_lock")
    /\ UNCHANGED <<engine, now, current_time, ret, memory_mb, rec_out, history, app>>

RamCheck(t) ==
    /\ pc[t] = "ram_chk"
    /\ Goto(t, IF current_time[t] - last_ram_time >= ram_interval
               THEN "ram_lock" ELSE "disk_chk")
    /\ UNCHANGED <<engine, now, current_time, ret, memory_mb, rec_out, history, app>>

RamLock(t) ==
    /\ pc[t] = "ram_lock"
    /\ lock = Free
    /\ IF current_time[t] - last_ram_time >= ram_interval
       THEN /\ lock' = t
            /\ check_iv' = ram_interval
            /\ Goto(t, "ram_q")
       ELSE /\ UNCHANGED <<lock, check_iv>>
            /\ Goto(t, "disk_chk")
    /\ UNCHANGED <<cpu_percent, ram_percent, disk_percent, temp_celsius, health,
                   last_cpu_time, last_ram_time, last_disk_time, last_temp_time,
                   cpu_interval, ram_interval, disk_interval, temp_available,
                   now, current_time, ret, memory_mb, rec_out, last_att, disk_good,
                   disk_failing, app>>

RamQuery(t, out) ==
    /\ pc[t] = "ram_q"
    /\ IF out = <<>>
       THEN /\ Raise(t)
            /\ Attempt("ram", FALSE, last_ram_time)
            /\ UNCHANGED <<ram_percent, last_ram_time>>
       ELSE /\ ram_percent' = out[1]
            /\ last_ram_time' = current_time[t]
            /\ lock' = Free
            /\ Attempt("ram", TRUE, last_ram_time)
            /\ Goto(t, "disk_chk")
    /\ UNCHANGED <<cpu_percent, disk_percent, temp_celsius, health,
                   last_cpu_time, last_disk_time, last_temp_time,
                   cpu_interval, ram_interval, disk_interval, temp_available,
                   now, current_time, ret, memory_mb, rec_out, disk_good, disk_failing, app>>

\* ----------------------------------------------------------- disk section
\* Variant with a slip: the unlocked staleness check forgotten.
DiskCheck_NoGate(t) ==
    /\ pc[t] = "disk_chk"
    /\ Goto(t, "disk_lock")
    /\ UNCHANGED <<engine, now, current_time, ret, memory_mb, rec_out, history, app>>

DiskCheck(t) ==
    /\ pc[t] = "disk_chk"
    /\ Goto(t, IF current_time[t] - last_disk_time >= disk_interval
               THEN "disk_lock" ELSE "temp_chk")
    /\ UNCHANGED <<engine, now, current_time, ret, memory_mb, rec_out, history, app>>

\* The locked re-check compares with the literal 10 (core.py:140).
DiskLock(t) ==
    /\ pc[t] = "disk_lock"
    /\ lock = Free
    /\ IF current_time[t] - last_disk_time >= FixedInterval
       THEN /\ lock' = t
            /\ check_iv' = disk_interval
            /\ Goto(t, "disk_q")
       ELSE /\ UNCHANGED <<lock, check_iv>>
            /\ Goto(t, "temp_chk")
    /\ UNCHANGED <<cpu_percent, ram_percent, disk_percent, temp_celsius, health,
                   last_cpu_time, last_ram_time, last_disk_time, last_temp_time,
                   cpu_interval, ram_interval, disk_interval, temp_available,
                   now, current_time, ret, memory_mb, rec_out, last_att, disk_good,
                   disk_failing, app>>

\* primary is the answer for self._disk_path, home the answer for the home
\* directory, which is asked only when the primary query raised.
\* Variant with a slip: the home directory's answer not used.
DiskResult_NoFallback(primary, home) ==
    IF primary # <<>> THEN primary[1]
    ELSE 0

DiskResult(primary, home) ==
    IF primary # <<>> THEN primary[1]
    ELSE IF home # <<>> THEN home[1]
    ELSE 0

\* The end of the locked block: the percent and the timestamp are stored
\* and the lock is released.
DiskStore(t, primary, home) ==
    /\ disk_percent' = DiskResult(primary, home)
    /\ last_disk_time' = current_time[t]
    /\ lock' = Free
    /\ AttemptVia("disk", primary # <<>> \/ home # <<>>, last_disk_time,
                  IF primary # <<>> THEN "direct" ELSE "home")
    /\ disk_good' = IF primary # <<>> THEN primary
                    ELSE IF home # <<>> THEN home ELSE disk_good
    /\ disk_failing' = (primary = <<>> /\ home = <<>>)
    /\ Goto(t, "temp_chk")
    /\ UNCHANGED <<cpu_percent, ram_percent, temp_celsius, health,
                   last_cpu_time, last_ram_time, last_temp_time,
                   cpu_interval, ram_interval, disk_interval, temp_available,
                   now, current_time, ret, memory_mb, rec_out, app>>

\* The query for self._disk_path.  When it raises, the handler goes on to
\* the home directory with the lock still held.
DiskQuery(t, primary) ==
    /\ pc[t] = "disk_q"
    /\ IF primary # <<>>
       THEN DiskStore(t, primary, <<>>)
       ELSE /\ Goto(t, "disk_home")
            /\ UNCHANGED <<engine, now, current_time, ret, memory_mb,
                           rec_out, history, app>>

\* The query for the home directory, inside the first handler.
DiskHome(t, home) ==
    /\ pc[t] = "disk_home"
    /\ DiskStore(t, <<>>, home)

\* ---------------------------------------------------- temperature section
\* Variant with a slip: the availability flag not consulted.
TempCheck_NoFlag(t) ==
    /\ pc[t] = "temp_chk"
    /\ Goto(t, IF current_time[t] - last_temp_time >= FixedInterval
               THEN "temp_lock" ELSE "health")
    /\ UNCHANGED <<engine, now, current_time, ret, memory_mb, rec_out, history, app>>

TempCheck(t) ==
    /\ pc[t] = "temp_chk"
    /\ Goto(t, IF temp_available /\ current_time[t] - last_temp_time >= FixedInterval
               THEN "temp_lock" ELSE "health")
    /\ UNCHANGED <<engine, now, current_time, ret, memory_mb, rec_out, history, app>>

TempLock(t) ==
    /\ pc[t] = "temp_lock"
    /\ lock = Free
    /\ IF current_time[t] - last_temp_time >= FixedInterval
       THEN /\ lock' = t
            /\ check_iv' = FixedInterval
            /\ Goto(t, "temp_q")
       ELSE /\ UNCHANGED <<lock, check_iv>>
            /\ Goto(t, "health")
    /\ UNCHANGED <<cpu_percent, ram_percent, disk_percent, temp_celsius, health,
                   last_cpu_time, last_ram_time, last_disk_time, last_temp_time,
                   cpu_interval, ram_interval, disk_interval, temp_available,
                   now, current_time, ret, memory_mb, rec_out, last_att, disk_good,
                   disk_failing, app>>

\* out.r: "value" a dict with a first non-empty entry list, "empty" no
\* entries at all, "raise" sensors_temperatures raised (swallowed).
TempQuery(t, out) ==
    /\ pc[t] = "temp_q"
    /\ temp_celsius' = IF out.r = "value" THEN out.v ELSE temp_celsius
    /\ last_temp_time' = current_time[t]
    /\ lock' = Free
    /\ Attempt("temp", out.r # "raise", last_temp_time)
    /\ Goto(t, "health")
    /\ UNCHANGED <<cpu_percent, ram_percent, disk_percent, health,
                   last_cpu_time, last_ram_time, last_disk_time,
                   cpu_interval, ram_interval, disk_interval, temp_available,
                   now, current_time, ret, memory_mb, rec_out, disk_good, disk_failing, app>>

\* ------------------------------------------------------ health and return
Health(t) ==
    /\ pc[t] = "health"
    /\ health' = calculate_health(cpu_percent, ram_percent, disk_percent)
    /\ Goto(t, "ret")
    /\ UNCHANGED <<cpu_percent, ram_percent, disk_percent, temp_celsius,
                   last_cpu_time, last_ram_time, last_disk_time, last_temp_time,
                   cpu_interval, ram_interval, disk_interval, lock, temp_available,
                   now, current_time, ret, memory_mb, rec_out, history, app>>

Snapshot ==
    [cpu |-> cpu_percent, ram |-> ram_percent, disk |-> disk_percent,
     temp |-> IF temp_available THEN <<temp_celsius>> ELSE <<>>,
     health |-> health]

Return(t) ==
    /\ pc[t] = "ret"
    /\ ret' = [ret EXCEPT ![t] = Snapshot]
    /\ Goto(t, "returned")
    /\ UNCHANGED <<engine, now, current_time, memory_mb, rec_out, history, app>>

\* ---------------------------------------------------------- specification
\* One step of thread t inside get_lightweight_metrics after its first
\* statement, the OS answering with percentages from S.
WorkM(t, S, M) ==
    \/ \E m \in M : GetAppMemoryUsage(t, m)
    \/ CheckMemoryLimit(t)
    \/ OptimizeCpu(t) \/ OptimizeRam(t) \/ OptimizeDisk(t)
    \/ CpuCheck(t) \/ CpuLock(t) \/ \E out \in Outcomes(S) : CpuQuery(t, out)
    \/ RamCheck(t) \/ RamLock(t) \/ \E out \in Outcomes(S) : RamQuery(t, out)
    \/ DiskCheck(t) \/ DiskLock(t)
    \/ \E primary \in Outcomes(S) : DiskQuery(t, primary)
    \/ \E home \in Outcomes(S) : DiskHome(t, home)
    \/ TempCheck(t) \/ TempLock(t) \/ \E out \in TempOutcomes : TempQuery(t, out)
    \/ Health(t) \/ Return(t)

Work(t, S) == WorkM(t, S, MemReadings)

\* A call of get_lightweight_metrics by thread t, or one step inside it.
Step(t, S) ==
    Call(t) \/ Work(t, S)

\* Two threads calling concurrently, the clock visiting a few instants.
Next ==
    \/ Tick({Instants[i] : i \in 1..NumInstants})
    \/ \E t \in Threads : Step(t, Samples)

Spec == Init /\ [][Next]_vars

\* Two threads calling concurrently under a scheduler that lets every
\* thread inside a call go on: an OS query that has been started answers
\* or raises, and a thread that finds the lock free again and again gets
\* it in the end.  Nothing obliges a thread to make a call.
LiveInstants == {MemCheckPeriod, MemCheckPeriod + FixedInterval}

InitLive ==
    /\ InitCore
    /\ InitCallerAt(MemCheckPeriod)
    /\ InitApp

NextLive ==
    \/ Tick(LiveInstants)
    \/ \E t \in Threads : Step(t, Samples)

SpecLive ==
    /\ InitLive
    /\ [][NextLive]_vars
    /\ \A t \in Threads : SF_vars(Work(t, Samples))

\* A single-threaded run: only the producer calls.
NextSeq ==
    \/ Tick({SeqInstants[i] : i \in 1..NumSeqInstants})
    \/ Step("producer", SeqSamples)

SpecSeq == Init /\ [][NextSeq]_vars

\* A single-threaded run in which the OS may answer with a percentage
\* outside 0..100.
RawSamples == {-5, 60, 150}

NextRaw ==
    \/ Tick({Instants[i] : i \in 1..NumInstants})
    \/ Step("producer", RawSamples)

SpecRaw == Init /\ [][NextRaw]_vars

\* The producer on its cadence: one call per turn of _update_loop, then
\* time.sleep(3); the next call starts 3 or 4 whole seconds after the
\* last one started (the call itself takes up to a second, cpu_percent
\* blocks for one).  The process's memory stays above the limit.
MaxClock == 64
CadenceSteps == {3, 4}
HighMemReadings == {MemoryLimitMB + 1}

CadenceCall ==
    /\ pc["producer"] = "idle"
    /\ Call("producer")

CadenceWork == WorkM("producer", Samples, HighMemReadings)

CadenceSleep(d) ==
    /\ pc["producer"] \in {"returned", "raised"}
    /\ now + d <= MaxClock
    /\ now' = now + d
    /\ pc' = [pc EXCEPT !["producer"] = "idle"]
    /\ UNCHANGED <<engine, current_time, ret, memory_mb, rec_out, history,
                   app>>

NextCadence ==
    \/ CadenceCall
    \/ CadenceWork
    \/ \E d \in CadenceSteps : CadenceSleep(d)

SpecCadence == Init /\ [][NextCadence]_vars

\* A single-threaded run of an application whose configuration file may
\* give poll intervals of its own.  MonitorCore() is constructed without
\* arguments (main.py:21) and the configuration is read by MonitorUI alone.
FilePollIntervals == <<1, 2, 4>>

InitConfig ==
    /\ InitCore
    /\ InitCaller
    /\ InitMain
    /\ poll_intervals \in {DefaultPollIntervals, FilePollIntervals}

NextConfig ==
    \/ Tick({Instants[i] : i \in 1..NumInstants})
    \/ Step("producer", Samples)

SpecConfig == InitConfig /\ [][NextConfig]_vars

\* ------------------------------------------------------ get_recommendations
\* The rule table in its dict (insertion) order.  A tip is the pair
\* (text, action); the model names it by the rule's key.
RECOMMENDATIONS ==
    << [key |-> "disk_critical", priority |-> 1],
       [key |-> "disk_high", priority |-> 2],
       [key |-> "ram_high", priority |-> 2],
       [key |-> "cpu_high", priority |-> 2],
       [key |-> "ram_medium", priority |-> 3] >>

general_tips == <<"System Optimization", "Performance", "Maintenance">>

\* Variants with a slip: the two disk rules made exclusive tiers; the
\* comparisons made non-strict.
condition_Tiered(key) ==
    CASE key = "disk_critical" -> disk_percent > 95
      [] key = "disk_high" -> disk_percent > 85 /\ disk_percent <= 95
      [] key = "ram_high" -> ram_percent > 85
      [] key = "cpu_high" -> cpu_percent > 90
      [] key = "ram_medium" -> ram_percent > 75 /\ ram_percent <= 85

condition_NonStrict(key) ==
    CASE key = "disk_critical" -> disk_percent >= 95
      [] key = "disk_high" -> disk_percent >= 85
      [] key = "ram_high" -> ram_percent >= 85
      [] key = "cpu_high" -> cpu_percent >= 90
      [] key = "ram_medium" -> ram_percent >= 75

\* rule['condition'](), read from the cached percentages
condition(key) ==
    CASE key = "disk_critical" -> disk_percent > 95
      [] key = "disk_high" -> disk_percent > 85
      [] key = "ram_high" -> ram_percent > 85
      [] key = "cpu_high" -> cpu_percent > 90
      [] key = "ram_medium" -> ram_percent > 75

\* list.sort(key=priority): a stable sort, here by insertion
InsertByPriority(x, sorted) ==
    LET k == Cardinality({i \in 1..Len(sorted) : sorted[i].priority <= x.priority})
    IN  SubSeq(sorted, 1, k) \o <<x>> \o SubSeq(sorted, k + 1, Len(sorted))

RECURSIVE SortByPriority(_)
SortByPriority(recs) ==
    IF recs = <<>> THEN <<>>
    ELSE InsertByPriority(recs[Len(recs)],
                          SortByPriority(SubSeq(recs, 1, Len(recs) - 1)))

\* recs[:n]
Take(recs, n) == SubSeq(recs, 1, Min(n, Len(recs)))

\* Variants with a slip: all three generic tips offered; the memory gate
\* forgotten.
get_recommendations_AllTips(mem) ==
    IF mem > RecsMemoryLimitMB THEN <<>>
    ELSE LET recs == SelectSeq(RECOMMENDATIONS, LAMBDA rule : condition(rule.key))
             top == Take(SortByPriority(recs), 3)
             result == [i \in 1..Len(top) |-> top[i].key]
         IN  IF result = <<>> THEN general_tips ELSE result

get_recommendations_NoMemGate(mem) ==
    LET recs == SelectSeq(RECOMMENDATIONS, LAMBDA rule : condition(rule.key))
        top == Take(SortByPriority(recs), 3)
        result == [i \in 1..Len(top) |-> top[i].key]
    IN  IF result = <<>> THEN Take(general_tips, 2) ELSE result

get_recommendations(mem) ==
    IF mem > RecsMemoryLimitMB THEN <<>>
    ELSE LET recs == SelectSeq(RECOMMENDATIONS, LAMBDA rule : condition(rule.key))
             top == Take(SortByPriority(recs), 3)
             result == [i \in 1..Len(top) |-> top[i].key]
         IN  IF result = <<>> THEN Take(general_tips, 2) ELSE result

\* Variant with a slip: the call resets the cached cpu percent.
GetRecommendations_Resetting(mem) ==
    /\ rec_out' = [called |-> TRUE, mem |-> mem,
                   result |-> get_recommendations(mem)]
    /\ cpu_percent' = 0
    /\ UNCHANGED <<ram_percent, disk_percent, temp_celsius, health,
                   last_cpu_time, last_ram_time, last_disk_time,
                   last_temp_time, cpu_interval, ram_interval, disk_interval,
                   lock, temp_available, now, caller, history, app>>

GetRecommendations(mem) ==
    /\ rec_out' = [called |-> TRUE, mem |-> mem,
                   result |-> get_recommendations(mem)]
    /\ UNCHANGED <<engine, now, caller, history, app>>

\* get_recommendations called by the interface thread (ui.py:259) while
\* the producer thread is anywhere in get_lightweight_metrics.
NextRead ==
    \/ Tick({Instants[i] : i \in 1..NumInstants})
    \/ Step("producer", Samples)
    \/ \E m \in {RecsMemoryLimitMB, RecsMemoryLimitMB + 1} :
            GetRecommendations(m)

SpecRead == Init /\ [][NextRead]_vars

\* ------------------------------ the derivations on arbitrary cached values
CpuInputs == {0, 10, 50, 90, 91, 100}
RamInputs == {0, 10, 50, 75, 76, 85, 86, 100}
DiskInputs == {0, 10, 50, 85, 86, 95, 96, 100}
\* values no percentage should take, for _calculate_health alone
OutOfRange == {-10, 150}
RecsMemReadings == {20, 30, 31}

\* The cached percentages are drawn from the input sets (and extra); the
\* producer stands at p.
InitDerive(extra, p) ==
    /\ cpu_percent \in CpuInputs \cup extra
    /\ ram_percent \in RamInputs \cup extra
    /\ disk_percent \in DiskInputs \cup extra
    /\ temp_celsius = 0 /\ health = HealthMax
    /\ last_cpu_time = Instants[1] /\ last_ram_time = Instants[1]
    /\ last_disk_time = Instants[1] /\ last_temp_time = 0
    /\ cpu_interval = 3 /\ ram_interval = 5 /\ disk_interval = 10
    /\ lock = Free
    /\ temp_available = FALSE
    /\ now = Instants[1]
    /\ pc = [t \in Threads |-> IF t = "producer" THEN p ELSE "idle"]
    /\ current_time = [t \in Threads |-> IF t = "producer" THEN Instants[1] ELSE 0]
    /\ ret = [t \in Threads |-> NoSnapshot]
    /\ memory_mb = [t \in Threads |-> 0]
    /\ rec_out = NoRecs
    /\ last_att = NoAttempt
    /\ disk_good = <<>>
    /\ disk_failing = FALSE
    /\ check_iv = 0
    /\ InitApp

\* get_recommendations on every combination of the input percentages.
NextRecs ==
    \E m \in RecsMemReadings : GetRecommendations(m)

SpecRecs == InitDerive({}, "idle") /\ [][NextRecs]_vars

\* The tail of get_lightweight_metrics (core.py:168-181) on percentages in
\* and out of range: the producer is about to derive the health score.
NextHealth ==
    \/ Health("producer")
    \/ Return("producer")

SpecHealth == InitDerive(OutOfRange, "health") /\ [][NextHealth]_vars

\* ------------------------------------------- the application (src/main.py)
\* Positions of the main thread: "constructed" before start(), "mainloop"
\* inside root.mainloop(), "destroyed" once _quit_application has destroyed
\* the root window, "exited" after the finally block of start().
\* Positions of the producer thread: "off" before it is started, then the
\* statements of _update_loop; "done" when the while test failed, "broken"
\* when the loop was left through break or an escaping exception, "killed"
\* when the interpreter exited under it.
LoopOver == {"done", "broken", "killed"}

\* What a call into Tk from the producer thread can do.
TkOutcomes == {"ok", "TclError", "Exception"}

\* The memory reading of the get_recommendations call inside get_all.
LoopMemReadings == {20}

\* start(): running is set, the producer thread is started (daemon), the
\* overlay widget is created and the button updated, and
\* the main thread reaches root.mainloop().
Start ==
    /\ main_pc = "constructed"
    /\ running' = TRUE
    /\ loop_pc' = "test"
    /\ main_pc' = "mainloop"
    /\ widget_visible' = TRUE
    /\ widget_btn' = "DISABLE WIDGET"
    /\ UNCHANGED <<engine, now, caller, rec_out, history,
                   window_visible, last_data, include_recommendations,
                   poll_intervals, button_pending>>

\* _on_window_show / _show_main_window
OnWindowShow ==
    /\ main_pc = "mainloop"
    /\ window_visible' = TRUE
    /\ UNCHANGED <<engine, now, caller, rec_out, history, front,
                   running, main_pc, loop_pc, last_data, include_recommendations>>

\* _on_window_hide: clear_caches only collects garbage
OnWindowHide ==
    /\ main_pc = "mainloop"
    /\ window_visible' = FALSE
    /\ UNCHANGED <<engine, now, caller, rec_out, history, front,
                   running, main_pc, loop_pc, last_data, include_recommendations>>

\* _quit_application: running is cleared, then the root window is destroyed
QuitApplication ==
    /\ main_pc = "mainloop"
    /\ running' = FALSE
    /\ main_pc' = "destroyed"
    /\ UNCHANGED <<engine, now, caller, rec_out, history, front,
                   window_visible, loop_pc, last_data, include_recommendations>>

\* root.mainloop() returns, after _quit_application or on its own, and the
\* finally block of start() clears running.
MainloopExit ==
    /\ main_pc \in {"mainloop", "destroyed"}
    /\ running' = FALSE
    /\ main_pc' = "exited"
    /\ UNCHANGED <<engine, now, caller, rec_out, history, front,
                   window_visible, loop_pc, last_data, include_recommendations>>

\* main() returns.  The producer thread is a daemon thread and is not
\* joined: the interpreter exits and the thread stops where it stands.
InterpreterExit ==
    /\ main_pc = "exited"
    /\ loop_pc \notin LoopOver
    /\ loop_pc' = "killed"
    /\ UNCHANGED <<engine, now, caller, rec_out, history, front,
                   running, window_visible, main_pc, last_data,
                   include_recommendations>>

\* while self.running:
UpdateLoopTest ==
    /\ loop_pc = "test"
    /\ loop_pc' = IF running THEN "call" ELSE "done"
    /\ UNCHANGED <<engine, now, caller, rec_out, history, front,
                   running, window_visible, main_pc, last_data,
                   include_recommendations>>

\* data = self.core.get_all(include_recommendations=self._window_visible):
\* the argument is evaluated and get_lightweight_metrics is entered
UpdateLoopCall ==
    /\ loop_pc = "call"
    /\ Entry("producer")
    /\ include_recommendations' = window_visible
    /\ loop_pc' = "in_call"
    /\ UNCHANGED <<running, window_visible, main_pc, last_data, front>>

\* the steps of get_lightweight_metrics inside that call
UpdateLoopWork ==
    /\ loop_pc = "in_call"
    /\ Work("producer", Samples)

\* get_all returns: the recommendations are added when asked for, the dict
\* has the four keys and becomes last_data
UpdateLoopData ==
    /\ loop_pc = "in_call"
    /\ pc["producer"] = "returned"
    /\ last_data' = <<ret["producer"]>>
    /\ IF include_recommendations
       THEN \E m \in LoopMemReadings :
               rec_out' = [called |-> TRUE, mem |-> m,
                           result |-> get_recommendations(m)]
       ELSE UNCHANGED rec_out
    /\ loop_pc' = "post"
    /\ pc' = [pc EXCEPT !["producer"] = "idle"]
    /\ UNCHANGED <<engine, now, current_time, ret, memory_mb, history,
                   running, window_visible, main_pc, include_recommendations,
                   front>>

\* get_all raised (an OS query of the cpu or ram section): except Exception
UpdateLoopRaised ==
    /\ loop_pc = "in_call"
    /\ pc["producer"] = "raised"
    /\ loop_pc' = "handler"
    /\ pc' = [pc EXCEPT !["producer"] = "idle"]
    /\ UNCHANGED <<engine, now, current_time, ret, memory_mb, rec_out, history,
                   running, window_visible, main_pc, last_data,
                   include_recommendations, front>>

\* The outcome of a Tk call: out while the root window exists, TclError
\* once it is destroyed.
TkCall(out) ==
    IF main_pc = "mainloop" THEN out ELSE "TclError"

\* if self._window_visible and self.root.winfo_exists() and last_data:
\*     self.root.after(0, self.ui.update_all, last_data)
\* TclError and RuntimeError break the loop, any other exception goes to
\* the handler.
UpdateLoopPost(out) ==
    /\ loop_pc = "post"
    /\ loop_pc' = IF ~window_visible \/ TkCall(out) = "ok" THEN "sleep"
                  ELSE IF TkCall(out) = "TclError" THEN "broken"
                  ELSE "handler"
    /\ UNCHANGED <<engine, now, caller, rec_out, history, front,
                   running, window_visible, main_pc, last_data,
                   include_recommendations>>

\* except Exception: the test of winfo_exists is outside the inner try, so
\* an exception of it leaves the loop; a failure of root.after is swallowed.
UpdateLoopHandler(out) ==
    /\ loop_pc = "handler"
    /\ loop_pc' = IF last_data # <<>> /\ window_visible /\ TkCall(out) # "ok"
                  THEN "broken" ELSE "sleep"
    /\ UNCHANGED <<engine, now, caller, rec_out, history, front,
                   running, window_visible, main_pc, last_data,
                   include_recommendations>>

\* time.sleep(3)
UpdateLoopSleep ==
    /\ loop_pc = "sleep"
    /\ loop_pc' = "test"
    /\ UNCHANGED <<engine, now, caller, rec_out, history, front,
                   running, window_visible, main_pc, last_data,
                   include_recommendations>>

NextApp ==
    \/ Tick({Instants[i] : i \in 1..NumInstants})
    \/ Start \/ OnWindowShow \/ OnWindowHide
    \/ QuitApplication \/ MainloopExit \/ InterpreterExit
    \/ UpdateLoopTest \/ UpdateLoopCall \/ UpdateLoopWork
    \/ UpdateLoopData \/ UpdateLoopRaised
    \/ \E out \in TkOutcomes : UpdateLoopPost(out)
    \/ \E out \in TkOutcomes : UpdateLoopHandler(out)
    \/ UpdateLoopSleep

SpecApp == Init /\ [][NextApp]_vars

\* The positions inside a call, and those at which the caller takes the
\* lock.
InCall == {"mem", "mem_cmp", "opt_cpu", "opt_ram", "opt_disk",
           "cpu_chk", "cpu_lock", "cpu_q", "ram_chk", "ram_lock", "ram_q",
           "disk_chk", "disk_lock", "disk_q", "disk_home",
           "temp_chk", "temp_lock", "temp_q", "health", "ret"}
LockPcs == {"cpu_lock", "ram_lock", "disk_lock", "temp_lock"}

\* ------------------------------------------- the overlay widget (main.py)
\* The events of the interface thread that concern the overlay widget.
\* Tk runs one handler at a time, so no event is handled while the
\* widget's timer is inside get_lightweight_metrics.
MaxPending == 2

\* update_widget_button
ButtonText(visible) ==
    IF visible THEN "DISABLE WIDGET" ELSE "ENABLE WIDGET"

UiIdle ==
    /\ main_pc = "mainloop"
    /\ pc["widget"] \notin InCall

\* _toggle_widget, the command of the widget button of the main window
\* (self.widget is set by start(), so the first branch is not taken).
ToggleWidget ==
    /\ UiIdle
    /\ window_visible
    /\ widget_visible' = ~widget_visible
    /\ widget_btn' = ButtonText(~widget_visible)
    /\ UNCHANGED <<engine, now, caller, rec_out, history,
                   running, window_visible, main_pc, loop_pc, last_data,
                   include_recommendations, poll_intervals, button_pending>>

\* _disable_widget, from the context menu of the shown widget: the button
\* update is handed to root.after only if the main window is visible.
DisableWidget ==
    /\ UiIdle
    /\ widget_visible
    /\ button_pending < MaxPending
    /\ widget_visible' = FALSE
    /\ button_pending' = IF window_visible THEN button_pending + 1
                         ELSE button_pending
    /\ UNCHANGED <<engine, now, caller, rec_out, history,
                   running, window_visible, main_pc, loop_pc, last_data,
                   include_recommendations, poll_intervals, widget_btn>>

\* a callback handed to root.after(0, ...) runs: update_widget_button(False)
RunButtonUpdate ==
    /\ UiIdle
    /\ button_pending > 0
    /\ button_pending' = button_pending - 1
    /\ widget_btn' = ButtonText(FALSE)
    /\ UNCHANGED <<engine, now, caller, rec_out, history,
                   running, window_visible, main_pc, loop_pc, last_data,
                   include_recommendations, poll_intervals, widget_visible>>

\* OverlayWidget._schedule_update: the timer calls get_lightweight_metrics
\* on the interface thread
WidgetUpdateCall ==
    /\ main_pc = "mainloop"
    /\ Call("widget")

WidgetUpdateWork == Work("widget", Samples)

NextWidget ==
    \/ Tick({Instants[i] : i \in 1..NumInstants})
    \/ Start
    \/ (UiIdle /\ OnWindowShow)
    \/ (UiIdle /\ OnWindowHide)
    \/ ToggleWidget \/ DisableWidget \/ RunButtonUpdate
    \/ WidgetUpdateCall \/ WidgetUpdateWork

SpecWidget == Init /\ [][NextWidget]_vars

\* ================================================================= claims
LastTime(k) ==
    CASE k = "cpu" -> last_cpu_time
      [] k = "ram" -> last_ram_time
      [] k = "disk" -> last_disk_time
      [] k = "temp" -> last_temp_time
      [] OTHER -> 0

\* C1: under any interleaving of concurrent callers, two OS queries of one
\* kind are recorded with sample timestamps at least that kind's interval
\* apart: whenever a re-sample writes a kind's last_sample_time, the new
\* stamp is at least the interval (as it stood at the locked re-check) after
\* the stamp it replaces.
C1_OneQueryPerWindow ==
    (last_att.kind \in Kinds /\ LastTime(last_att.kind) # last_att.before)
        => LastTime(last_att.kind) - last_att.before >= last_att.iv

\* C2: single-threaded, a call made less than a metric's interval after the
\* call that sampled it performs no OS query for it (so every query comes at
\* least the interval after the previous sample) and returns the cached value.
C2_FreshNotRequeried ==
    /\ last_att.kind \in Kinds
         => current_time["producer"] - last_att.before >= last_att.iv
    /\ pc["producer"] = "returned"
         => /\ ret["producer"].cpu = cpu_percent
            /\ ret["producer"].ram = ram_percent
            /\ ret["producer"].disk = disk_percent

\* A call returned that came after the CPU sample and within the CPU interval
\* of it.
C2_Witness ==
    /\ pc["producer"] = "returned"
    /\ last_cpu_time > 0
    /\ current_time["producer"] > last_cpu_time
    /\ current_time["producer"] - last_cpu_time < cpu_interval
    /\ ret["producer"].cpu = cpu_percent
    /\ cpu_percent # 0

\* C3: once a disk percent has been cached and the disk queries fail on both
\* paths, every snapshot returns the cached disk percent, and the disk
\* section never raises.
C3_DiskValueRetained ==
    [][\A t \in Threads :
          /\ (pc[t] = "ret" /\ pc'[t] = "returned"
                /\ disk_good # <<>> /\ disk_failing)
               => ret'[t].disk = disk_good[1]
          /\ pc[t] \in {"disk_q", "disk_home"} => pc'[t] # "raised"]_vars

\* C4: no snapshot call raises to its caller, whichever OS query fails.
C4_NeverRaises ==
    \A t \in Threads : pc[t] # "raised"

\* C5: a re-sample attempt whose OS query fails leaves the kind's
\* last_sample_time as it was before the attempt.
C5_FailedAttemptKeepsStamp ==
    (last_att.kind \in Kinds /\ ~last_att.ok)
        => LastTime(last_att.kind) = last_att.before

\* C6: the health score lies in [0, 100] for all inputs, out-of-range ones
\* included, and so does the health field of every returned snapshot.
C6_HealthInRange ==
    /\ health \in 0..HealthMax
    /\ \A t \in Threads : pc[t] = "returned" => ret[t].health \in 0..HealthMax

\* A snapshot was returned for out-of-range percentages whose weighted sum
\* exceeds 100.
C6_Witness ==
    /\ pc["producer"] = "returned"
    /\ cpu_percent > 100
    /\ (cpu_percent * 3) + (ram_percent * 4) + (disk_percent * 3) > HealthMax
    /\ ret["producer"].health = 0

\* C7: for percentages in 0..100 the health score is
\* 100 - (0.3 cpu + 0.4 ram + 0.3 disk), the clamp changing nothing;
\* health(0,0,0) = 100 and health(100,100,100) = 0.
C7_HealthFormula ==
    (pc["producer"] \in {"ret", "returned"}
        /\ cpu_percent \in 0..100 /\ ram_percent \in 0..100
        /\ disk_percent \in 0..100)
    => /\ health = HealthMax
                     - ((3 * cpu_percent) + (4 * ram_percent) + (3 * disk_percent))
       /\ (cpu_percent = 0 /\ ram_percent = 0 /\ disk_percent = 0)
            => health = 1000
       /\ (cpu_percent = 100 /\ ram_percent = 100 /\ disk_percent = 100)
            => health = 0

\* The health score has been derived from in-range percentages that are not
\* all equal.
C7_Witness ==
    /\ pc["producer"] = "returned"
    /\ cpu_percent = 50 /\ ram_percent = 10 /\ disk_percent = 100
    /\ health = 510

\* C8: the health field of every returned snapshot is the health formula
\* applied to the cpu, ram and disk fields of that same snapshot.
C8_SnapshotConsistent ==
    \A t \in Threads :
        pc[t] = "returned"
            => ret[t].health = Max(0, Min(HealthMax,
                   HealthMax - ((3 * ret[t].cpu) + (4 * ret[t].ram)
                                   + (3 * ret[t].disk))))

\* C9 as stated: with memory at most 30 MB and disk=96, ram=50, cpu=50 the
\* result is exactly one tip, the disk-critical one.
C9_Case ==
    /\ rec_out.called /\ rec_out.mem <= 30
    /\ disk_percent = 96 /\ ram_percent = 50 /\ cpu_percent = 50

C9_OnlyDiskCritical ==
    C9_Case => rec_out.result = <<"disk_critical">>

\* C9 amended: with memory at most 30 MB and disk=96, ram=50, cpu=50 the
\* result is exactly two tips: the priority-1 disk-critical tip, then the
\* priority-2 disk-high tip, whose predicate disk > 85 holds as well.
C9_DiskCriticalThenHigh ==
    C9_Case => rec_out.result = <<"disk_critical", "disk_high">>

C9_Witness ==
    C9_Case /\ Len(rec_out.result) = 2

\* The five rules as the claim C10 lists them.
ClaimedKeys == <<"disk_critical", "disk_high", "ram_high", "cpu_high", "ram_medium">>

ClaimedHolds(key) ==
    \/ key = "disk_critical" /\ disk_percent > 95
    \/ key = "disk_high" /\ disk_percent > 85
    \/ key = "ram_high" /\ ram_percent > 85
    \/ key = "cpu_high" /\ cpu_percent > 90
    \/ key = "ram_medium" /\ ram_percent > 75

\* priority first, position in the rule table second
ClaimedRank(key) ==
    CASE key = "disk_critical" -> 11
      [] key = "disk_high" -> 22
      [] key = "ram_high" -> 23
      [] key = "cpu_high" -> 24
      [] key = "ram_medium" -> 35
      [] OTHER -> 99

Matching == {ClaimedKeys[i] : i \in 1..5} \cap {k \in {ClaimedKeys[i] : i \in 1..5} : ClaimedHolds(k)}

IsSelection(result) ==
    /\ Len(result) = Min(3, Cardinality(Matching))
    /\ \A i \in 1..Len(result) : result[i] \in Matching
    /\ \A i, j \in 1..Len(result) :
          i < j => ClaimedRank(result[i]) < ClaimedRank(result[j])
    /\ \A k \in Matching :
          (\A i \in 1..Len(result) : result[i] # k)
              => \A i \in 1..Len(result) : ClaimedRank(result[i]) < ClaimedRank(k)

\* C10 as stated: with memory at most 30 MB the result is the tips of
\* exactly the rules whose predicate holds, by ascending priority, ties in
\* table order, cut to the first 3; never more than 3 entries.
C10_MatchingRulesOnly ==
    (rec_out.called /\ rec_out.mem <= 30)
        => IsSelection(rec_out.result) /\ Len(rec_out.result) <= 3

\* C10 amended: the same, when at least one of the five predicates holds
\* (when none holds the result is two generic tips, no rule's tip); the
\* result never has more than 3 entries.
C10_MatchingRulesWhenAny ==
    (rec_out.called /\ rec_out.mem <= 30)
        => /\ Len(rec_out.result) <= 3
           /\ Matching # {} => IsSelection(rec_out.result)

\* All five predicates hold and the result was cut to three tips.
C10_Witness ==
    /\ rec_out.called /\ rec_out.mem <= 30
    /\ Cardinality(Matching) = 5
    /\ rec_out.result = <<"disk_critical", "disk_high", "ram_high">>

\* C11: with memory at most 30 MB, when none of the five rule predicates
\* holds, the result is exactly two tips: the first two entries of the
\* three-entry generic list, in that order.
C11_GenericTipsWhenNoneMatch ==
    (rec_out.called /\ rec_out.mem <= 30 /\ Matching = {})
        => rec_out.result = <<"System Optimization", "Performance">>

\* The call was made at cpu=10, ram=10, disk=10 with memory at the limit.
C11_Witness ==
    /\ rec_out.called /\ rec_out.mem = 30
    /\ cpu_percent = 10 /\ ram_percent = 10 /\ disk_percent = 10
    /\ Len(rec_out.result) = 2

\* C12: whenever the memory probe reports more than 30 MB the result is the
\* empty list, whatever the cached cpu, ram and disk values are.
C12_EmptyAboveMemoryLimit ==
    (rec_out.called /\ rec_out.mem > 30) => rec_out.result = <<>>

\* The call was made above the limit while all five predicates held.
C12_Witness ==
    /\ rec_out.called /\ rec_out.mem = 31
    /\ Cardinality(Matching) = 5
    /\ rec_out.result = <<>>

\* C13: if the capability check at construction reported the sensor
\* unavailable, then at every later time no thread makes a sensor query
\* (none stands at the query, none was attempted, no temperature timestamp
\* was written), the flag stays false, and every returned snapshot has no
\* temp.
C13_NoSensorCallWhenUnavailable ==
    /\ [](~temp_available
            => /\ \A t \in Threads : pc[t] # "temp_q"
               /\ last_att.kind # "temp"
               /\ last_temp_time = 0
               /\ \A t \in Threads : pc[t] = "returned" => ret[t].temp = <<>>)
    /\ [][~temp_available => ~temp_available']_vars

\* Without a sensor a call returned that was made at second 40 or later,
\* several temperature intervals after construction, and that re-sampled
\* the disk.
C13_Witness ==
    /\ ~temp_available
    /\ pc["producer"] = "returned"
    /\ current_time["producer"] >= 40
    /\ last_disk_time = current_time["producer"]
    /\ ret["producer"].temp = <<>>

\* C14: whenever a returned snapshot reports a numeric temperature, that
\* number was returned by a successful sensor read; it is never the
\* placeholder 0 that __init__ stores.
C14_TempIsSensorReading ==
    \A t \in Threads :
        (pc[t] = "returned" /\ ret[t].temp # <<>>)
            => ret[t].temp[1] \in TempSamples

\* C15: in every returned snapshot the cpu, ram and disk fields lie in
\* [0, 100], whatever the OS queries returned.
C15_PercentagesInRange ==
    \A t \in Threads :
        pc[t] = "returned"
            => /\ ret[t].cpu \in 0..100
               /\ ret[t].ram \in 0..100
               /\ ret[t].disk \in 0..100

Intervals == <<cpu_interval, ram_interval, disk_interval>>
InitialIntervals == <<3, 5, 10>>
WidenedIntervals == <<10, 15, 20>>

\* C16 as stated, at the places where a caller reads an interval: the
\* triple of intervals is always either (3,5,10) or (10,15,20).
C16_TripleAlwaysWhole ==
    (\E t \in Threads : pc[t] \in {"cpu_chk", "cpu_lock", "ram_chk", "ram_lock", "disk_chk"})
        => Intervals \in {InitialIntervals, WidenedIntervals}

\* C16 amended: check_memory_limit goes on to widen exactly when its
\* reading is strictly above 25 MB; the widening ends with the intervals at
\* (10,15,20); no interval ever decreases, so a later reading at or below
\* the limit restores nothing; each interval has its initial or its widened
\* value, and the triple is (3,5,10) or (10,15,20) except while a caller is
\* between the three stores of optimize_memory_usage, when (10,5,10) and
\* (10,15,10) are seen by concurrent callers.
C16_OneWayRatchet ==
    /\ [](/\ cpu_interval \in {3, 10}
          /\ ram_interval \in {5, 15}
          /\ disk_interval \in {10, 20}
          /\ Intervals \notin {InitialIntervals, WidenedIntervals}
                => /\ Intervals \in {<<10, 5, 10>>, <<10, 15, 10>>}
                   /\ \E t \in Threads : pc[t] \in {"opt_ram", "opt_disk"})
    /\ [][/\ cpu_interval' >= cpu_interval
          /\ ram_interval' >= ram_interval
          /\ disk_interval' >= disk_interval
          /\ Intervals' # Intervals
                => \E t \in Threads : pc[t] \in {"opt_cpu", "opt_ram", "opt_disk"}
                                          /\ pc'[t] # pc[t]
          /\ \A t \in Threads :
                /\ (pc[t] = "mem_cmp" /\ pc'[t] # pc[t])
                      => (pc'[t] = "opt_cpu" <=> memory_mb[t] > 25)
                /\ pc'[t] = "opt_cpu" => pc[t] \in {"mem_cmp", "opt_cpu"}
                /\ (pc[t] = "opt_disk" /\ pc'[t] # pc[t])
                      => Intervals' = WidenedIntervals]_vars

\* The intervals were widened and a later memory check, by the other
\* caller, reads a value at the limit.
C16_Witness ==
    /\ Intervals = WidenedIntervals
    /\ pc["widget"] = "mem_cmp" /\ memory_mb["widget"] = 25
    /\ pc["producer"] = "returned"

\* The positions at which a caller is inside an OS query.
QueryPcs == {"cpu_q", "ram_q", "disk_q", "disk_home", "temp_q"}

\* The lock is held exactly by a caller that is inside the re-sample of
\* one kind: never at a staleness check, at the memory check, at the health
\* computation or at return.
LockOnlyWhileResampling ==
    /\ lock # Free => lock \in Threads /\ pc[lock] \in QueryPcs
    /\ \A t \in Threads : pc[t] \in QueryPcs => lock = t

\* C17: the lock is held only while one kind is being re-sampled, is
\* released between the sections and is not held at the health computation
\* or at return; and the holder releases it when its OS query is over, so
\* that nobody waits for longer than one OS query.
C17_LockHeldForOneQuery ==
    /\ []LockOnlyWhileResampling
    /\ [][\A t \in Threads :
            (lock = t /\ pc'[t] # pc[t]) => lock' = Free]_vars

\* C18: OS queries are executed only on the producer thread; the UI
\* thread, which runs the overlay's timer and the start-up call, never
\* stands inside an OS query.
C18_NoQueryOnUIThread ==
    pc["widget"] \notin QueryPcs

\* C19: once shutdown is requested the producer loop ends by its own while
\* test: an OS query in flight is completed, never cut off; and once the
\* loop is over the producer starts no snapshot call.
C19_InFlightQueryCompletes ==
    /\ [](loop_pc \in LoopOver => pc["producer"] \notin QueryPcs)
    /\ [][(loop_pc \in LoopOver)
            => (pc'["producer"] = pc["producer"] /\ loop_pc' = loop_pc)]_vars

\* C20: a failure of posting a snapshot to the presentation layer never
\* stops the producer loop while the application is running.
C20_LoopSurvivesPostFailure ==
    (running /\ main_pc = "mainloop") => loop_pc # "broken"

\* Every available kind is fresh for the call of thread t.
FreshFor(t) ==
    /\ current_time[t] - last_cpu_time < cpu_interval
    /\ current_time[t] - last_ram_time < ram_interval
    /\ current_time[t] - last_disk_time < disk_interval
    /\ temp_available => current_time[t] - last_temp_time < FixedInterval

Cached == <<cpu_percent, ram_percent, disk_percent, temp_celsius,
            last_cpu_time, last_ram_time, last_disk_time, last_temp_time>>

\* C21: a call for which every available kind is fresh never stands at a
\* lock acquisition or inside an OS query; its steps leave every cached
\* value and timestamp and the lock unchanged, the health store writes the
\* value the health already has when that agrees with the cached
\* percentages; and the call returns the cached values.
C21_FreshCallTouchesNothing ==
    /\ [](\A t \in Threads :
            (pc[t] \in InCall /\ FreshFor(t))
                => pc[t] \notin LockPcs \cup QueryPcs)
    /\ [][\A t \in Threads :
            (pc[t] \in InCall /\ FreshFor(t) /\ pc'[t] # pc[t])
                => /\ Cached' = Cached
                   /\ lock' = lock
                   /\ health = calculate_health(cpu_percent, ram_percent,
                                                disk_percent)
                        => health' = health
                   /\ pc'[t] = "returned"
                        => /\ ret'[t].cpu = cpu_percent
                           /\ ret'[t].ram = ram_percent
                           /\ ret'[t].disk = disk_percent
                           /\ ret'[t].health = health]_vars

\* A call returned that was made later than every sample and found every
\* kind fresh: it sampled nothing and returned the cached values.
C21_Witness ==
    /\ pc["producer"] = "returned"
    /\ FreshFor("producer")
    /\ last_cpu_time < current_time["producer"]
    /\ last_ram_time < current_time["producer"]
    /\ last_disk_time < current_time["producer"]
    /\ cpu_percent = 60
    /\ ret["producer"].cpu = 60

\* C21 as stated: a fresh call performs no OS query of any sort, the
\* reading of the process's own memory included.
C21_NoOSQueryAtAll ==
    \A t \in Threads :
        (pc[t] \in InCall /\ FreshFor(t))
            => pc[t] \notin LockPcs \cup QueryPcs \cup {"mem"}

\* C22: the home directory is queried only by a caller whose query of the
\* primary path has just failed in the same locked block, once (the block
\* is left straight after it), and when it answers, its percentage is
\* what the block stores in the cached disk percent.
C22_HomeOnlyAfterPrimaryFailed ==
    /\ [](\A t \in Threads : pc[t] = "disk_home" => lock = t)
    /\ [][\A t \in Threads :
            /\ (pc'[t] = "disk_home" /\ pc[t] # "disk_home")
                 => (pc[t] = "disk_q" /\ lock = t
                     /\ current_time'[t] = current_time[t]
                     /\ last_disk_time' = last_disk_time)
            /\ (pc[t] = "disk_home" /\ pc'[t] # "disk_home")
                 => /\ pc'[t] = "temp_chk"
                    /\ last_att'.kind = "disk" /\ last_att'.via = "home"
                    /\ last_disk_time' = current_time[t]
                    /\ last_att'.ok => disk_percent' = disk_good'[1]
            /\ (last_att' # last_att /\ last_att'.via = "home")
                 => pc[t] = "disk_home" \/ pc'[t] = pc[t]]_vars

\* The fallback has answered 100 percent after the primary path failed,
\* and 100 is now the cached disk percent.
C22_Witness ==
    /\ pc["producer"] = "temp_chk"
    /\ last_att.kind = "disk" /\ last_att.via = "home" /\ last_att.ok
    /\ disk_percent = 100
    /\ last_disk_time = current_time["producer"]

\* C23: get_recommendations is a pure read: whatever the producer is doing
\* and whatever the memory reading, a call of it leaves every cached value,
\* timestamp and interval, the lock, the availability flag and the
\* producer's own position and locals unchanged.
C23_RecommendationsPureRead ==
    [][rec_out' # rec_out
        => UNCHANGED <<engine, now, caller, history, app>>]_vars

\* Recommendations were computed while the producer held the lock inside
\* an OS query.
C23_Witness ==
    /\ rec_out.called
    /\ rec_out.result # <<>>
    /\ pc["producer"] \in QueryPcs
    /\ lock = "producer"

\* C24: until the memory check widens them, the interval a re-sample of
\* cpu, ram or disk was tested against is the configured poll interval of
\* that kind.
C24_SamplesAtConfiguredIntervals ==
    /\ (last_att.kind = "cpu" /\ cpu_interval = 3)
            => last_att.iv = poll_intervals[1]
    /\ (last_att.kind = "ram" /\ ram_interval = 5)
            => last_att.iv = poll_intervals[2]
    /\ (last_att.kind = "disk" /\ disk_interval = 10)
            => last_att.iv = poll_intervals[3]

\* C25: with memory above the limit all the time and the producer calling
\* on its cadence, a call that starts more than a memory-check period and
\* one cadence step after the first call finds the intervals widened by
\* the time it returns.
C25_CheckRunsEveryPeriod ==
    (/\ pc["producer"] = "returned"
     /\ current_time["producer"] > Instants[1] + MemCheckPeriod + 4)
        => Intervals = WidenedIntervals

\* C26: the three stores of optimize_memory_usage and the clear_caches
\* call of _on_window_hide leave the cached cpu, ram, disk, temperature and
\* health values and the four timestamps unchanged; the window hiding
\* leaves the intervals unchanged too.
C26_OptimizeAndClearPreserveValues ==
    [][/\ (\E t \in Threads :
              pc[t] \in {"opt_cpu", "opt_ram", "opt_disk"} /\ pc'[t] # pc[t])
            => (Cached' = Cached /\ health' = health)
       /\ (window_visible /\ ~window_visible')
            => (Cached' = Cached /\ health' = health
                /\ Intervals' = Intervals)]_vars

\* The producer has just come out of optimize_memory_usage with the
\* intervals widened, a cpu percent of 60 sampled at second 29 still
\* cached, and the window hidden after the producer saw it shown.
C26_Witness ==
    /\ pc["producer"] = "cpu_chk"
    /\ Intervals = WidenedIntervals
    /\ cpu_percent = 60 /\ last_cpu_time = 29
    /\ current_time["producer"] = 30
    /\ include_recommendations /\ ~window_visible

\* C27: with two callers interleaved in any way, no last_sample_time ever
\* decreases, and a step of a caller whose timestamp is older than the
\* stored one of a kind changes neither that stamp nor the value cached
\* with it.
C27_StampsNeverDecrease ==
    [][/\ last_cpu_time' >= last_cpu_time
       /\ last_ram_time' >= last_ram_time
       /\ last_disk_time' >= last_disk_time
       /\ last_temp_time' >= last_temp_time
       /\ \A t \in Threads :
            (pc[t] \in InCall /\ pc'[t] # pc[t])
                => /\ current_time[t] < last_cpu_time
                        => UNCHANGED <<cpu_percent, last_cpu_time>>
                   /\ current_time[t] < last_ram_time
                        => UNCHANGED <<ram_percent, last_ram_time>>
                   /\ current_time[t] < last_disk_time
                        => UNCHANGED <<disk_percent, last_disk_time>>
                   /\ current_time[t] < last_temp_time
                        => UNCHANGED <<temp_celsius, last_temp_time>>]_vars

\* The widget's call found the cpu value stale and stands before the
\* lock; meanwhile the producer, with a newer timestamp, has stored a
\* sample and released the lock.
C27_Witness ==
    /\ pc["widget"] = "cpu_lock"
    /\ lock = Free
    /\ current_time["widget"] < last_cpu_time
    /\ last_cpu_time = current_time["producer"]
    /\ cpu_percent = 60

\* C28: a thread that is not inside a re-sample section does not hold the
\* lock, whether its call returned or raised, and with two concurrent
\* callers and OS queries that always answer or raise, every call that
\* was entered returns or raises.
C28_EveryCallEnds ==
    /\ [](\A t \in Threads : pc[t] \notin QueryPcs => lock # t)
    /\ \A t \in Threads :
            (pc[t] \in InCall) ~> (pc[t] \in {"returned", "raised"})

\* The producer's cpu query raised inside the locked block while the
\* widget's call was waiting for the lock, and the lock is free again.
C28_Witness ==
    /\ pc["producer"] = "raised"
    /\ last_att.kind = "cpu" /\ ~last_att.ok
    /\ pc["widget"] \in LockPcs
    /\ lock = Free

\* C29: while the application runs and no button update is waiting in
\* the event queue, the widget button reads "DISABLE WIDGET" exactly when
\* _widget_visible is true.
C29_ButtonAgreesWithWidget ==
    (main_pc = "mainloop" /\ button_pending = 0)
        => (widget_btn = "DISABLE WIDGET" <=> widget_visible)

====
